---- MODULE Spec2Model ----
(***************************************************************************)
(* Mandy state synchronisation of prebuilt-transcription: the Room page    *)
(* (pages/[domain]/[room].tsx), the relay endpoints under                  *)
(* pages/api/mandy and the MandyState type (types/mandy.ts).               *)
(***************************************************************************)
EXTENDS Integers, Sequences, FiniteSets, TLC

(***************************************************************************)
(* Bounds of the model.                                                    *)
(***************************************************************************)
\* largest version number a candidate state carries
MaxVersion == 2
\* largest number of mandy/state envelopes the authority publishes
MaxPublished == 3
\* largest number of control commands one client has in flight
MaxInFlight == 2
\* Control commands the panels post to the authority.
MaxPosted == 2
\* Events the call frame raises for the page's transcription listeners.
MaxFrameEvents == 3

(***************************************************************************)
(* JavaScript values.  A value carries its typeof tag; n is its value when *)
(* it is a number (booleans: 1 = true, 0 = false), s when it is a string.  *)
(* Numbers are integers: fractions and NaN are not represented.            *)
(***************************************************************************)
Undef == [t |-> "undefined", n |-> 0, s |-> ""]
Null == [t |-> "null", n |-> 0, s |-> ""]
Num(k) == [t |-> "number", n |-> k, s |-> ""]
Str(x) == [t |-> "string", n |-> 0, s |-> x]
Bool(b) == [t |-> "boolean", n |-> IF b THEN 1 ELSE 0, s |-> ""]

\* typeof v === ty
TypeOf(v, ty) == v.t = ty

\* JavaScript truthiness of a value: !!v
Truthy(v) ==
  CASE v.t = "undefined" -> FALSE
    [] v.t = "null" -> FALSE
    [] v.t = "number" -> v.n # 0
    [] v.t = "string" -> v.s # ""
    [] v.t = "boolean" -> v.n = 1
    [] OTHER -> TRUE

\* a ?? b
Coalesce(a, b) == IF a.t \in {"undefined", "null"} THEN b ELSE a

\* a || b
OrElse(a, b) == IF Truthy(a) THEN a ELSE b

(***************************************************************************)
(* types/mandy.ts                                                          *)
(***************************************************************************)
VALID_MANDY_MODES == {"silent", "prompted", "active"}
VALID_MANDY_STATUS == {"disconnected", "connecting", "online", "degraded", "error"}

DEFAULT_MANDY_STATE ==
  [version |-> Num(0),
   mode |-> Str("silent"),
   muted |-> Bool(TRUE),
   directive |-> Str(""),
   status |-> Str("disconnected"),
   lockedBy |-> Null,
   updatedBy |-> Null,
   updatedAt |-> Null,
   pendingReason |-> Null]

\* An object none of whose MandyState fields is present ({}).
EmptyFields ==
  [version |-> Undef, mode |-> Undef, muted |-> Undef, directive |-> Undef,
   status |-> Undef, lockedBy |-> Undef, updatedBy |-> Undef,
   updatedAt |-> Undef, pendingReason |-> Undef]

\* The argument of normalizeMandyState: null, undefined or an object.
RawNull == [k |-> "null", f |-> EmptyFields]
RawUndefined == [k |-> "undefined", f |-> EmptyFields]
Obj(fields) == [k |-> "object", f |-> fields]

(***************************************************************************)
(* normalizeMandyState, [room].tsx:36-66                                   *)
(***************************************************************************)
NormalizeVersion(v) == IF TypeOf(v, "number") THEN v ELSE Num(0)

NormalizeMode(v) ==
  IF TypeOf(v, "string") /\ v.s \in VALID_MANDY_MODES THEN v ELSE Str("silent")

NormalizeStatus(v) ==
  IF TypeOf(v, "string") /\ v.s \in VALID_MANDY_STATUS THEN v ELSE Str("disconnected")

\* a negated flag: typeof raw.muted === "boolean" ? !raw.muted : default
NormalizeMuted_Negated(v) ==
  IF TypeOf(v, "boolean") THEN Bool(v.n = 0) ELSE DEFAULT_MANDY_STATE.muted

NormalizeMuted(v) == IF TypeOf(v, "boolean") THEN v ELSE DEFAULT_MANDY_STATE.muted

\* a nullish default instead of a type test: raw.directive ?? default
NormalizeDirective_Nullish(v) == Coalesce(v, DEFAULT_MANDY_STATE.directive)

NormalizeDirective(v) == IF TypeOf(v, "string") THEN v ELSE DEFAULT_MANDY_STATE.directive

NormalizeOptString(v, dflt) == IF TypeOf(v, "string") THEN v ELSE dflt

normalizeMandyState(raw) ==
  IF raw.k # "object"
    THEN DEFAULT_MANDY_STATE
    ELSE [version |-> NormalizeVersion(raw.f.version),
          mode |-> NormalizeMode(raw.f.mode),
          status |-> NormalizeStatus(raw.f.status),
          muted |-> NormalizeMuted(raw.f.muted),
          directive |-> NormalizeDirective(raw.f.directive),
          lockedBy |-> NormalizeOptString(raw.f.lockedBy, DEFAULT_MANDY_STATE.lockedBy),
          updatedBy |-> NormalizeOptString(raw.f.updatedBy, DEFAULT_MANDY_STATE.updatedBy),
          updatedAt |-> NormalizeOptString(raw.f.updatedAt, DEFAULT_MANDY_STATE.updatedAt),
          pendingReason |-> Null]

(***************************************************************************)
(* State.                                                                  *)
(***************************************************************************)
\* The browsers that have the Room page open.
Clients == {"c1", "c2"}

VARIABLES
  mandyState,      \* [room].tsx:84    useState<MandyState>, per client
  mandyError,      \* [room].tsx:87    useState<string | null>, per client
  mandyStarting,   \* [room].tsx:86    useState<boolean>, per client
  roomKnown,       \* [room].tsx:71-72 domainSlug and roomSlug both non-empty
  controlInFlight, \* sendMandyControl calls awaiting fetch("/api/mandy/control")
  startInFlight,   \* requestMandyStart calls awaiting fetch("/api/mandy/start")
  fetchState,      \* fetchInitialState: "idle", "pending", "cancelled", "restarted", "done"
  opened,          \* the clients that have the Room page open
  lastEvent,       \* the event the page handled last: kind, client, payload
  published,       \* mandy/state envelopes the authority has sent to the room
  seen,            \* per client, the published envelopes delivered so far
  best,            \* per client, the last delivered envelope of greatest version
  normIn,          \* argument of a normalizeMandyState call
  normOut,         \* its result
  normCalls,       \* how often normalizeMandyState was applied to it
  req,             \* request a relay handler is serving
  reply,           \* what the backend answers to the forwarded request
  forwarded,       \* whether the relay handler called the backend
  sent,            \* the body the relay handler sent to the backend
  res,             \* the relay handler's response
  relayPc,         \* position of the relay handler
  authority,       \* the MandyState the backend holds for the room
  wire,            \* per client, its control command on the way to the backend or back
  posted,          \* how many control commands the panels have posted
  isTranscribing,  \* [room].tsx:82    useState<boolean>, the open page's
  newMsg,          \* [room].tsx:75    useState<transcriptMsg>, the open page's
  frameLog         \* the events the call frame has raised, oldest first

pageVars == <<mandyState, mandyError, mandyStarting, roomKnown,
              controlInFlight, startInFlight, fetchState>>
clientVars == <<pageVars, opened, lastEvent>>
channelVars == <<published, seen, best>>
normVars == <<normIn, normOut, normCalls>>
relayVars == <<req, reply, forwarded, sent, res, relayPc>>
authorityVars == <<authority, wire, posted>>
transcriptVars == <<isTranscribing, newMsg, frameLog>>
vars == <<clientVars, channelVars, normVars, relayVars, authorityVars, transcriptVars>>

(***************************************************************************)
(* Values before any operation.                                            *)
(***************************************************************************)
\* A response as fetch() hands it to the page: k is "throws" when fetch
\* rejects, "badjson" when response.json() rejects, "json" otherwise.
HttpResponse(k, ok, error, state) == [k |-> k, ok |-> ok, error |-> error, state |-> state]
NoHttpResponse == HttpResponse("none", FALSE, Undef, RawUndefined)
Event(kind, c, action, state, response) ==
  [kind |-> kind, client |-> c, action |-> action, state |-> state, response |-> response]

\* Every page as the Room component constructs it, :74-89.
PageDefaults ==
  /\ lastEvent = Event("none", "c1", "", RawUndefined, NoHttpResponse)
  /\ mandyState = [c \in Clients |-> DEFAULT_MANDY_STATE]
  /\ mandyError = [c \in Clients |-> Null]
  /\ mandyStarting = [c \in Clients |-> FALSE]
  /\ roomKnown = [c \in Clients |-> FALSE]
  /\ controlInFlight = [c \in Clients |-> 0]
  /\ startInFlight = [c \in Clients |-> 0]
  /\ fetchState = [c \in Clients |-> "idle"]

\* No page is open.
ClientInit == opened = {} /\ PageDefaults

ChannelInit ==
  /\ published = {}
  /\ seen = [c \in Clients |-> {}]
  /\ best = [c \in Clients |-> RawUndefined]

NormIdle ==
  /\ normIn = RawUndefined
  /\ normOut = DEFAULT_MANDY_STATE
  /\ normCalls = 0

\* A payload of the backend or of a relay: the fields the handlers read.
Body(detail, error, state) == [detail |-> detail, error |-> error, state |-> state]
EmptyBody == Body(Undef, Undef, RawUndefined)

NoRequest ==
  [endpoint |-> "none", method |-> "GET", domain |-> Undef, room |-> Undef,
   action |-> Undef, requestedBy |-> Undef, version |-> Undef, configured |-> FALSE]

\* The JSON body of a call to the backend: the fields a handler may send.
ForwardBody(domain, room, action, requestedBy, version) ==
  [domain |-> domain, room |-> room, action |-> action,
   requestedBy |-> requestedBy, version |-> version]
NothingSent == ForwardBody(Undef, Undef, Undef, Undef, Undef)
NoReply == [k |-> "none", status |-> 0, message |-> Undef, body |-> EmptyBody]
NoResponse == [status |-> 0, body |-> EmptyBody]

RelayIdle ==
  /\ req = NoRequest
  /\ reply = NoReply
  /\ forwarded = FALSE
  /\ sent = NothingSent
  /\ res = NoResponse
  /\ relayPc = "idle"

\* A control command as sendMandyControl posts it, types/mandy.ts:34-49.
Command(action, mode, directive, requestedBy, version) ==
  [action |-> action, mode |-> mode, directive |-> directive,
   requestedBy |-> requestedBy, version |-> version]
NoCommand == Command("", Undef, Undef, Undef, Undef)

\* A client's command slot: empty, a command posted and not yet answered, or
\* the backend's answer on its way back (ok, and the state or the message).
OnWire(phase, cmd, ok, message, state) ==
  [phase |-> phase, cmd |-> cmd, ok |-> ok, message |-> message, state |-> state]
NothingOnWire == OnWire("none", NoCommand, FALSE, Undef, DEFAULT_MANDY_STATE)

\* The state the authority starts a room with: version 0, silent, muted,
\* disconnected, empty directive, no lock.
AuthorityInitial ==
  [version |-> Num(0), mode |-> Str("silent"), muted |-> Bool(TRUE),
   directive |-> Str(""), status |-> Str("disconnected"), lockedBy |-> Null,
   updatedBy |-> Null, updatedAt |-> Null, pendingReason |-> Null]

AuthorityIdle ==
  /\ authority = AuthorityInitial
  /\ wire = [c \in Clients |-> NothingOnWire]
  /\ posted = 0

\* A transcript line as the page shows it, :21-25 and :75-79.
TranscriptMsg(name, text, timestamp) == [name |-> name, text |-> text, timestamp |-> timestamp]

\* The transcription state the Room component is constructed with, :75-82.
TranscriptIdle ==
  /\ isTranscribing = FALSE
  /\ newMsg = TranscriptMsg("", "", "")
  /\ frameLog = <<>>

(***************************************************************************)
(* normalizeMandyState as a function of its argument.                      *)
(***************************************************************************)
RawVersions == {Undef, Null, Str("1"), Num(-1), Num(0), Num(MaxVersion)}
RawModes == {Undef, Str("silent"), Str("prompted"), Str("active"), Str("loud"), Num(1)}
RawStatuses == {Undef, Str("online"), Str("asleep")}
RawMuteds == {Undef, Bool(TRUE), Bool(FALSE), Str("true")}
RawDirectives == {Undef, Str("take notes"), Num(0)}
RawLockedBys == {Null, Str("alice"), Num(7)}
RawUpdatedBys == {Undef, Str("bob")}
RawUpdatedAts == {Undef, Str("2025-01-01T00:00:00Z")}
RawPendingReasons == {Undef, Str("mandy:mute")}

RawInputs ==
  {RawNull, RawUndefined} \cup
  { Obj([version |-> v, mode |-> m, muted |-> mu, directive |-> d, status |-> st,
         lockedBy |-> lb, updatedBy |-> ub, updatedAt |-> ua, pendingReason |-> pr]) :
      v \in RawVersions, m \in RawModes, mu \in RawMuteds, d \in RawDirectives,
      st \in RawStatuses, lb \in RawLockedBys, ub \in RawUpdatedBys,
      ua \in RawUpdatedAts, pr \in RawPendingReasons }

NormInit ==
  /\ ClientInit /\ ChannelInit /\ AuthorityIdle /\ TranscriptIdle /\ RelayIdle
  /\ normIn \in RawInputs
  /\ normOut = DEFAULT_MANDY_STATE
  /\ normCalls = 0

\* normalizeMandyState(raw)
Normalize ==
  /\ normCalls = 0
  /\ normOut' = normalizeMandyState(normIn)
  /\ normCalls' = 1
  /\ UNCHANGED <<normIn, clientVars, channelVars, relayVars, authorityVars, transcriptVars>>

\* normalizeMandyState applied to a state it returned
Renormalize ==
  /\ normCalls = 1
  /\ normOut' = normalizeMandyState(Obj(normOut))
  /\ normCalls' = 2
  /\ UNCHANGED <<normIn, clientVars, channelVars, relayVars, authorityVars, transcriptVars>>

NormNext == Normalize \/ Renormalize

SpecNormalize == NormInit /\ [][NormNext]_vars

(***************************************************************************)
(* Claims about normalizeMandyState (SpecNormalize).                       *)
(***************************************************************************)
\* The invariants of MandyState in the data model: version a non-negative
\* integer, mode and status members of their enumerations, muted a boolean,
\* directive a string.
MandyStateInvariants(st) ==
  /\ st.version.t = "number" /\ st.version.n \in Nat
  /\ st.mode.t = "string" /\ st.mode.s \in {"silent", "prompted", "active"}
  /\ st.status.t = "string"
  /\ st.status.s \in {"disconnected", "connecting", "online", "degraded", "error"}
  /\ st.muted.t = "boolean"
  /\ st.directive.t = "string"

\* C4: for every input, normalizeMandyState returns a value satisfying the
\* MandyState invariants (version a non-negative integer, mode and status in
\* their enumerations, muted a boolean, directive a string).
C4_NormalizationTotality == normCalls >= 1 => MandyStateInvariants(normOut)

\* C5: normalizing an already normalized state returns the same value:
\* normalize(normalize(x)) = normalize(x), field by field.
C5_NormalizationIdempotent ==
  normCalls = 2 => \A fld \in DOMAIN normOut : normOut[fld] = normalizeMandyState(normIn)[fld]

\* C5 witness: a malformed object has been normalized twice.
C5_Witness ==
  /\ normCalls = 2
  /\ normIn.k = "object"
  /\ normIn.f.mode = Str("loud")
  /\ normIn.f.version = Str("1")
  /\ normIn.f.muted = Bool(FALSE)
  /\ normIn.f.pendingReason = Str("mandy:mute")

\* The value a field takes: the input's when it has the wanted type, else dflt.
KeptIfTyped(v, ty, dflt) == IF v.t = ty THEN v ELSE dflt
\* The value an enumerated field takes: the input's when a member, else dflt.
KeptIfMember(v, enum, dflt) == IF v.t = "string" /\ v.s \in enum THEN v ELSE dflt

\* C6: each of version, muted, directive, lockedBy, updatedBy, updatedAt of
\* the output equals the input's value when present and well typed and the
\* DEFAULT_MANDY_STATE value otherwise; mode and status equal the input's
\* value when it is a member of the enumeration and silent / disconnected
\* otherwise; pendingReason of the output is always null.
C6_FieldwiseNormalization ==
  normCalls = 1 =>
    /\ normOut.version = KeptIfTyped(normIn.f.version, "number", Num(0))
    /\ normOut.muted = KeptIfTyped(normIn.f.muted, "boolean", Bool(TRUE))
    /\ normOut.directive = KeptIfTyped(normIn.f.directive, "string", Str(""))
    /\ normOut.lockedBy = KeptIfTyped(normIn.f.lockedBy, "string", Null)
    /\ normOut.updatedBy = KeptIfTyped(normIn.f.updatedBy, "string", Null)
    /\ normOut.updatedAt = KeptIfTyped(normIn.f.updatedAt, "string", Null)
    /\ normOut.mode = KeptIfMember(normIn.f.mode, {"silent", "prompted", "active"}, Str("silent"))
    /\ normOut.status =
         KeptIfMember(normIn.f.status,
                      {"disconnected", "connecting", "online", "degraded", "error"},
                      Str("disconnected"))
    /\ normOut.pendingReason = Null

\* C6 witness: an object mixing well typed, wrongly typed, out-of-enumeration
\* and absent fields, and carrying a pendingReason, has been normalized.
C6_Witness ==
  /\ normCalls = 1
  /\ normIn.k = "object"
  /\ normIn.f.version = Num(MaxVersion)
  /\ normIn.f.directive = Num(0)
  /\ normIn.f.lockedBy = Str("alice")
  /\ normIn.f.mode = Str("loud")
  /\ normIn.f.status = Undef
  /\ normIn.f.pendingReason = Str("mandy:mute")
  /\ normOut.pendingReason = Null

(***************************************************************************)
(* The relay endpoints: pages/api/mandy/start.ts, control.ts, state.ts.    *)
(***************************************************************************)
\* res.status(code).json({ error: message })
ErrorResponse(code, message) == [status |-> code, body |-> Body(Undef, message, RawUndefined)]

\* What a handler does before it awaits the backend: answer, or forward.
Answer(response) == [forward |-> FALSE, response |-> response]
Forward == [forward |-> TRUE, response |-> NoResponse]

\* start.ts:15-32
StartEntry(r) ==
  IF r.method # "POST" THEN Answer(ErrorResponse(405, Str("Method not allowed")))
  ELSE IF ~Truthy(r.domain) \/ ~Truthy(r.room)
    THEN Answer(ErrorResponse(400, Str("Both domain and room are required to invite Mandy.")))
  ELSE IF ~r.configured
    THEN Answer(ErrorResponse(500, Str("MANDY_SERVICE_URL is not configured on the server.")))
  ELSE Forward

\* a control handler that never tests serviceUrl
ControlEntry_NoConfigTest(r) ==
  IF r.method # "POST" THEN Answer(ErrorResponse(405, Str("Method not allowed")))
  ELSE IF ~Truthy(r.domain) \/ ~Truthy(r.room)
    THEN Answer(ErrorResponse(400, Str("Both domain and room are required to control Mandy.")))
  ELSE Forward

\* control.ts:15-32
ControlEntry(r) ==
  IF r.method # "POST" THEN Answer(ErrorResponse(405, Str("Method not allowed")))
  ELSE IF ~r.configured
    THEN Answer(ErrorResponse(500, Str("MANDY_SERVICE_URL is not configured on the server.")))
  ELSE IF ~Truthy(r.domain) \/ ~Truthy(r.room)
    THEN Answer(ErrorResponse(400, Str("Both domain and room are required to control Mandy.")))
  ELSE Forward

\* state.ts:15-32
StateEntry(r) ==
  IF r.method # "GET" THEN Answer(ErrorResponse(405, Str("Method not allowed")))
  ELSE IF ~r.configured
    THEN Answer(ErrorResponse(500, Str("MANDY_SERVICE_URL is not configured on the server.")))
  ELSE IF ~TypeOf(r.domain, "string") \/ ~TypeOf(r.room, "string")
    THEN Answer(ErrorResponse(400, Str("Both domain and room must be provided as query parameters.")))
  ELSE Forward

Entry(r) ==
  CASE r.endpoint = "start" -> StartEntry(r)
    [] r.endpoint = "control" -> ControlEntry(r)
    [] r.endpoint = "state" -> StateEntry(r)

\* start.ts:40-45: the body names domain, room, token and directive, and
\* nothing else of the caller's body.
StartForwardBody(r) == ForwardBody(r.domain, r.room, Undef, Undef, Undef)

\* control.ts:26 and :42-46: const { domain, room, ...rest } = req.body ?? {}
\* and JSON.stringify({ domain, room, ...rest }).
ControlForwardBody(r) == ForwardBody(r.domain, r.room, r.action, r.requestedBy, r.version)

\* state.ts:35-37: domain and room go into the query string.
StateForwardQuery(r) == ForwardBody(r.domain, r.room, Undef, Undef, Undef)

ForwardedBody(r) ==
  CASE r.endpoint = "start" -> StartForwardBody(r)
    [] r.endpoint = "control" -> ControlForwardBody(r)
    [] r.endpoint = "state" -> StateForwardQuery(r)

\* The text used when the backend's error payload names no message.
DefaultMessage(endpoint) ==
  CASE endpoint = "start" -> Str("Failed to start Mandy.")
    [] endpoint = "control" -> Str("Failed to update Mandy.")
    [] endpoint = "state" -> Str("Failed to fetch Mandy state.")

\* response.ok
Ok(status) == status \in 200..299

\* typeof payload?.detail === "string" ? payload.detail : payload?.error || dflt
UpstreamMessage(payload, dflt) ==
  IF TypeOf(payload.detail, "string") THEN payload.detail ELSE OrElse(payload.error, dflt)

\* The try block after the fetch and its catch: start.ts:34-63,
\* control.ts:34-65, state.ts:34-55.  rep.k is "throws" when fetch rejects,
\* "badjson" when response.json() rejects, "json" when the body parses.
Complete(r, rep) ==
  IF rep.k \in {"throws", "badjson"}
    THEN ErrorResponse(500, OrElse(rep.message, Str("Unexpected error reaching Mandy service.")))
  ELSE IF ~Ok(rep.status)
    THEN ErrorResponse(rep.status, UpstreamMessage(rep.body, DefaultMessage(r.endpoint)))
  ELSE [status |-> 200, body |-> rep.body]

\* Requests and backend behaviours considered.
Endpoints == {"start", "control", "state"}
Methods == {"GET", "POST"}
Addresses == {Undef, Str(""), Str("standup")}
Domains == {Undef, Str(""), Str("acme")}
\* The fields of a body besides domain and room: action, requestedBy, version.
RestFields ==
  { <<Undef, Undef, Undef>>, <<Str("mandy:mute"), Undef, Undef>>,
    <<Str("mandy:mute"), Str("alice"), Num(1)>> }
RelayRequests ==
  { [endpoint |-> e, method |-> m, domain |-> d, room |-> ro, action |-> f[1],
     requestedBy |-> f[2], version |-> f[3], configured |-> cf] :
      e \in Endpoints, m \in Methods, d \in Domains, ro \in Addresses,
      f \in RestFields, cf \in BOOLEAN }

BackendStatuses == {200, 409, 503}
BackendStates == {RawUndefined, Obj([EmptyFields EXCEPT !.version = Num(1)])}
BackendBodies ==
  { Body(d, e, st) :
      d \in {Undef, Str("Mode is locked by alice"), Num(422)},
      e \in {Undef, Str(""), Str("version conflict")},
      st \in BackendStates }
BackendReplies ==
  { [k |-> "throws", status |-> 0, message |-> m, body |-> EmptyBody] :
      m \in {Str(""), Str("fetch failed")} } \cup
  { [k |-> "badjson", status |-> st, message |-> Str("Unexpected token < in JSON"),
     body |-> EmptyBody] : st \in BackendStatuses } \cup
  { [k |-> "json", status |-> st, message |-> Undef, body |-> b] :
      st \in BackendStatuses, b \in BackendBodies }

RelayInit ==
  /\ ClientInit /\ ChannelInit /\ AuthorityIdle /\ TranscriptIdle /\ NormIdle
  /\ req \in RelayRequests
  /\ reply = NoReply
  /\ forwarded = FALSE
  /\ sent = NothingSent
  /\ res = NoResponse
  /\ relayPc = "received"

\* The handler up to its first await: it answers at once ...
RelayAnswer ==
  /\ relayPc = "received"
  /\ ~Entry(req).forward
  /\ res' = Entry(req).response
  /\ relayPc' = "done"
  /\ UNCHANGED <<req, reply, forwarded, sent, clientVars, channelVars, normVars, authorityVars,
                 transcriptVars>>

\* ... or calls the backend.
RelayForward ==
  /\ relayPc = "received"
  /\ Entry(req).forward
  /\ forwarded' = TRUE
  /\ sent' = ForwardedBody(req)
  /\ relayPc' = "awaiting"
  /\ UNCHANGED <<req, reply, res, clientVars, channelVars, normVars, authorityVars, transcriptVars>>

\* The backend call settles and the handler responds.
RelayComplete ==
  /\ relayPc = "awaiting"
  /\ \E rep \in BackendReplies :
       /\ reply' = rep
       /\ res' = Complete(req, rep)
  /\ relayPc' = "done"
  /\ UNCHANGED <<req, forwarded, sent, clientVars, channelVars, normVars, authorityVars, transcriptVars>>

\* The next request reaches the handler: a new invocation, which starts
\* from the module constants alone (control.ts:5-7).
RelayAccept ==
  /\ relayPc = "done"
  /\ req' \in RelayRequests
  /\ reply' = NoReply
  /\ forwarded' = FALSE
  /\ sent' = NothingSent
  /\ res' = NoResponse
  /\ relayPc' = "received"
  /\ UNCHANGED <<clientVars, channelVars, normVars, authorityVars, transcriptVars>>

RelayNext == RelayAnswer \/ RelayForward \/ RelayComplete \/ RelayAccept

SpecRelay == RelayInit /\ [][RelayNext]_vars

(***************************************************************************)
(* Claims about the relay endpoints (SpecRelay).                           *)
(***************************************************************************)
\* The request uses the method its endpoint allows.
AllowedMethod(r) ==
  \/ r.endpoint \in {"start", "control"} /\ r.method = "POST"
  \/ r.endpoint = "state" /\ r.method = "GET"

\* The room address is missing: domain or room absent or empty.
AddressMissing(r) ==
  \/ r.domain.t # "string" \/ r.domain.s = ""
  \/ r.room.t # "string" \/ r.room.s = ""

\* The response is an { error } payload and carries no state.
IsErrorOnly(response) ==
  /\ response.body.error.t = "string"
  /\ response.body.error.s # ""
  /\ response.body.state = RawUndefined

\* C8: on each relay endpoint a request of the allowed method whose room
\* address is missing fails with HTTP 400 and an { error } body, whatever
\* the configuration, and nothing is forwarded to the backend.
C8_MissingAddressRejected ==
  (relayPc \in {"awaiting", "done"} /\ AllowedMethod(req) /\ AddressMissing(req)) =>
    /\ ~forwarded
    /\ relayPc = "done" => (res.status = 400 /\ IsErrorOnly(res))

\* C9: a request of the allowed method carrying a domain and a room while
\* MANDY_SERVICE_URL is not configured fails with HTTP 500 and { error } and
\* nothing is sent to the backend; a backend call that throws yields
\* HTTP 500 with { error } and never { state }.
C9_UpstreamUnavailable ==
  (AllowedMethod(req) /\ ~AddressMissing(req)) =>
    /\ ~req.configured => ~forwarded
    /\ (relayPc = "done" /\ ~req.configured) => (res.status = 500 /\ IsErrorOnly(res))
    /\ (relayPc = "done" /\ reply.k = "throws") => (res.status = 500 /\ IsErrorOnly(res))

\* C9 witness: the state relay has answered an addressed GET on a server
\* without MANDY_SERVICE_URL.
C9_Witness ==
  /\ relayPc = "done"
  /\ req.endpoint = "state" /\ req.method = "GET"
  /\ req.domain = Str("acme") /\ req.room = Str("standup")
  /\ ~req.configured
  /\ res.status = 500

\* The message the claim expects for a non-success backend response: detail
\* when it is a string, otherwise error, and the default text when neither
\* is there (an error that is the empty string is read as not supplied).
ExpectedUpstreamMessage(r, rep) ==
  IF rep.k = "json" /\ rep.body.detail.t = "string" THEN rep.body.detail
  ELSE IF rep.k = "json" /\ Truthy(rep.body.error) THEN rep.body.error
  ELSE DefaultMessage(r.endpoint)

\* C10: whenever the backend responds with a non-success status the relay
\* responds with that same status and { error: m }, m the backend's message,
\* and never with a { state } body.
C10_UpstreamErrorPropagated ==
  (relayPc = "done" /\ reply.k \in {"json", "badjson"} /\ ~Ok(reply.status)) =>
    /\ res.status = reply.status
    /\ res.body.error = ExpectedUpstreamMessage(req, reply)
    /\ res.body.state = RawUndefined

\* C11: the control relay sends the backend a body with the caller's domain,
\* room and every other field of the caller's body (action, requestedBy,
\* version) unchanged; whenever the backend responds with a success status
\* it answers 200 with the backend's body unchanged; this holds for every
\* request it serves, whatever it served before.
C11_ControlPassThrough ==
  req.endpoint = "control" =>
    /\ forwarded =>
         /\ sent.domain = req.domain /\ sent.room = req.room
         /\ sent.action = req.action
         /\ sent.requestedBy = req.requestedBy
         /\ sent.version = req.version
    /\ (relayPc = "done" /\ reply.k \in {"json", "badjson"} /\ Ok(reply.status)) =>
         (res.status = 200 /\ res.body = reply.body)

(***************************************************************************)
(* The Room page, pages/[domain]/[room].tsx.                               *)
(***************************************************************************)
\* States carried by mandy/state envelopes and by relay responses: one
\* without a version, one of each version from -1 to MaxVersion with mode
\* active, and for the versions from 1 on a second one with mode silent.
Candidate(v, m) == Obj([EmptyFields EXCEPT !.version = v, !.mode = Str(m)])
StateCandidates ==
  {Candidate(Undef, "active")} \cup
  {Candidate(Num(k), "active") : k \in -1..MaxVersion} \cup
  {Candidate(Num(k), "silent") : k \in 1..MaxVersion}

\* The actions the panel sends through sendMandyControl.
ControlActions == {"mandy:set_mode"}

\* Responses of the relay endpoints as the page sees them.
HttpResponses ==
  { HttpResponse("json", TRUE, Undef, st) :
      st \in {Candidate(Num(k), "active") : k \in 0..MaxVersion} \cup {RawUndefined} } \cup
  { HttpResponse("json", FALSE, e, RawUndefined) : e \in {Undef, Str("Mode is locked by alice")} } \cup
  { HttpResponse("json", FALSE, Undef, Candidate(Num(MaxVersion), "silent")),
    HttpResponse("badjson", TRUE, Str("Unexpected token < in JSON"), RawUndefined),
    HttpResponse("throws", FALSE, Str("Failed to fetch"), RawUndefined) }

\* an updater that adopts only strictly newer versions
Reconcile_Strict(prev, incomingState) ==
  LET normalized == normalizeMandyState(incomingState) IN
    IF normalized.version.n > Coalesce(prev.version, Num(0)).n THEN normalized ELSE prev

\* an updater that compares no versions: the last envelope wins
Reconcile_LastWins(prev, incomingState) == normalizeMandyState(incomingState)

\* The updater given to setMandyState by the app-message handler, :173-179.
Reconcile(prev, incomingState) ==
  LET normalized == normalizeMandyState(incomingState) IN
    IF normalized.version.n >= Coalesce(prev.version, Num(0)).n THEN normalized ELSE prev

\* mandyState after the app-message handler has seen a mandy/state envelope
\* whose data.state is st, :170-182.
AfterStateMessage(c, st) ==
  [mandyState EXCEPT ![c] = IF st.k = "object" THEN Reconcile(@, st) ELSE @]

\* app-message, data.type === "mandy/state"
StateMessage(c) ==
  /\ c \in opened
  /\ \E st \in StateCandidates \cup {RawNull} :
       /\ mandyState' = AfterStateMessage(c, st)
       /\ lastEvent' = Event("state-message", c, "", st, NoHttpResponse)
  /\ UNCHANGED <<mandyError, mandyStarting, roomKnown, controlInFlight, startInFlight,
                 fetchState, opened, channelVars, normVars, relayVars, authorityVars,
                 transcriptVars>>

\* app-message, data.type === "mandy/error", :184-187
ErrorMessage(c) ==
  /\ c \in opened
  /\ \E m \in {Undef, Str("Mandy lost her voice")} :
       /\ mandyError' = [mandyError EXCEPT ![c] = Coalesce(m, Str("Mandy encountered an error."))]
       /\ lastEvent' = Event("error-message", c, "", RawUndefined,
                             HttpResponse("none", FALSE, m, RawUndefined))
  /\ UNCHANGED <<mandyState, mandyStarting, roomKnown, controlInFlight, startInFlight,
                 fetchState, opened, channelVars, normVars, relayVars, authorityVars,
                 transcriptVars>>

\* an optimistic update that also counts the command as a new version
Optimistic_BumpsVersion(prev, action) ==
  [prev EXCEPT !.pendingReason = Str(action), !.version = Num(@.n + 1)]

\* setMandyState((prev) => ({ ...prev, pendingReason: payload.action })), :226-229
Optimistic(prev, action) == [prev EXCEPT !.pendingReason = Str(action)]

\* sendMandyControl up to its await, :219-243
SendMandyControl(c) ==
  /\ c \in opened
  /\ \E a \in ControlActions :
       IF ~roomKnown[c]
         THEN /\ mandyError' = [mandyError EXCEPT
                                  ![c] = Str("Missing room information for Mandy control.")]
              /\ lastEvent' = Event("control-refused", c, a, RawUndefined, NoHttpResponse)
              /\ UNCHANGED <<mandyState, controlInFlight, transcriptVars>>
         ELSE /\ controlInFlight[c] < MaxInFlight
              /\ mandyState' = [mandyState EXCEPT ![c] = Optimistic(@, a)]
              /\ controlInFlight' = [controlInFlight EXCEPT ![c] = @ + 1]
              /\ lastEvent' = Event("control-sent", c, a, RawUndefined, NoHttpResponse)
              /\ UNCHANGED mandyError
  /\ UNCHANGED <<mandyStarting, roomKnown, startInFlight, fetchState, opened,
                 channelVars, normVars, relayVars, authorityVars, transcriptVars>>

\* a catch block that falls back to the default state
ClearPendingOnFailure_Resets(prev) == DEFAULT_MANDY_STATE

\* The updater of the catch block, :266-269.
ClearPendingOnFailure(prev) == [prev EXCEPT !.pendingReason = Null]

\* a success branch that leaves the state as it is when no state came back
ClearPendingOnSuccess_Keeps(prev) == prev

\* The updater used when the response carries no state, :258-261.
ClearPendingOnSuccess(prev) == [prev EXCEPT !.pendingReason = Null]

\* sendMandyControl after its await, :245-270
ControlResponse(c) ==
  /\ c \in opened
  /\ controlInFlight[c] > 0
  /\ \E r \in HttpResponses :
       /\ lastEvent' = Event("control-response", c, "", RawUndefined, r)
       /\ IF r.k \in {"throws", "badjson"}
            THEN /\ mandyError' = [mandyError EXCEPT
                                     ![c] = OrElse(r.error, Str("Failed to update Mandy."))]
                 /\ mandyState' = [mandyState EXCEPT ![c] = ClearPendingOnFailure(@)]
          ELSE IF ~r.ok
            THEN /\ mandyError' = [mandyError EXCEPT
                                     ![c] = OrElse(OrElse(r.error, Str("Failed to update Mandy's state.")),
                                                   Str("Failed to update Mandy."))]
                 /\ mandyState' = [mandyState EXCEPT ![c] = ClearPendingOnFailure(@)]
          ELSE IF r.state.k = "object"
            THEN /\ mandyState' = [mandyState EXCEPT ![c] = normalizeMandyState(r.state)]
                 /\ mandyError' = [mandyError EXCEPT ![c] = Null]
          ELSE /\ mandyState' = [mandyState EXCEPT ![c] = ClearPendingOnSuccess(@)]
               /\ UNCHANGED mandyError
  /\ controlInFlight' = [controlInFlight EXCEPT ![c] = @ - 1]
  /\ UNCHANGED <<mandyStarting, roomKnown, startInFlight, fetchState, opened,
                 channelVars, normVars, relayVars, authorityVars, transcriptVars>>

\* a callback that starts whatever mandyStarting says
StartAllowed_Always(c) == TRUE

\* if (mandyStarting) { return; }, :276-278
StartAllowed(c) == ~mandyStarting[c]

\* requestMandyStart up to its await, :275-297
RequestMandyStart(c) ==
  /\ c \in opened
  /\ IF ~StartAllowed(c)
       THEN /\ lastEvent' = Event("start-ignored", c, "", RawUndefined, NoHttpResponse)
            /\ UNCHANGED <<mandyError, mandyStarting, startInFlight, transcriptVars>>
     ELSE IF ~roomKnown[c]
       THEN \* setMandyStarting(true), the early return, then finally
            /\ mandyError' = [mandyError EXCEPT ![c] = Str("Missing room information for Mandy.")]
            /\ lastEvent' = Event("start-refused", c, "", RawUndefined, NoHttpResponse)
            /\ UNCHANGED <<mandyStarting, startInFlight, transcriptVars>>
       ELSE /\ mandyStarting' = [mandyStarting EXCEPT ![c] = TRUE]
            /\ startInFlight' = [startInFlight EXCEPT ![c] = @ + 1]
            /\ lastEvent' = Event("start-sent", c, "", RawUndefined, NoHttpResponse)
            /\ UNCHANGED mandyError
  /\ UNCHANGED <<mandyState, roomKnown, controlInFlight, fetchState, opened,
                 channelVars, normVars, relayVars, authorityVars, transcriptVars>>

\* a callback that clears the flag after the success path only
StartingAfterAttempt_NoFinally(r) == r.k = "throws" \/ ~r.ok

\* finally { setMandyStarting(false); }, :312-314: the flag after the
\* attempt, whatever the response r was.
StartingAfterAttempt(r) == FALSE

\* requestMandyStart after its await, :299-314
StartResponse(c) ==
  /\ c \in opened
  /\ startInFlight[c] > 0
  /\ \E r \in HttpResponses :
       /\ lastEvent' = Event("start-response", c, "", RawUndefined, r)
       /\ IF r.k = "throws"
            THEN /\ mandyError' = [mandyError EXCEPT ![c] = r.error]
                 /\ UNCHANGED mandyState
          ELSE IF ~r.ok
            THEN /\ mandyError' = [mandyError EXCEPT
                                     ![c] = IF r.k = "badjson" THEN Str("Failed to invite Mandy.")
                                            ELSE OrElse(r.error, Str("Failed to invite Mandy."))]
                 /\ UNCHANGED mandyState
          ELSE /\ mandyState' = [mandyState EXCEPT
                                   ![c] = IF r.k = "json" /\ r.state.k = "object"
                                            THEN normalizeMandyState(r.state) ELSE @]
               /\ mandyError' = [mandyError EXCEPT ![c] = Null]
       /\ mandyStarting' = [mandyStarting EXCEPT ![c] = StartingAfterAttempt(r)]
  /\ startInFlight' = [startInFlight EXCEPT ![c] = @ - 1]
  /\ UNCHANGED <<roomKnown, controlInFlight, fetchState, opened,
                 channelVars, normVars, relayVars, authorityVars, transcriptVars>>

\* handleClearMandyError, :332
ClearMandyError(c) ==
  /\ c \in opened
  /\ mandyError[c] # Null
  /\ mandyError' = [mandyError EXCEPT ![c] = Null]
  /\ lastEvent' = Event("error-cleared", c, "", RawUndefined, NoHttpResponse)
  /\ UNCHANGED <<mandyState, mandyStarting, roomKnown, controlInFlight, startInFlight,
                 fetchState, opened, channelVars, normVars, relayVars, authorityVars,
                 transcriptVars>>

\* The router delivers domain and room; the effect at :334-364 runs and
\* calls fetchInitialState.
RouterReady(c) ==
  /\ c \in opened
  /\ ~roomKnown[c]
  /\ roomKnown' = [roomKnown EXCEPT ![c] = TRUE]
  /\ fetchState' = [fetchState EXCEPT ![c] = "pending"]
  /\ lastEvent' = Event("router-ready", c, "", RawUndefined, NoHttpResponse)
  /\ UNCHANGED <<mandyState, mandyError, mandyStarting, controlInFlight, startInFlight,
                 opened, channelVars, normVars, relayVars, authorityVars, transcriptVars>>

\* The effect's cleanup, :361-363: cancelled = true.
FetchCleanup(c) ==
  /\ c \in opened
  /\ fetchState[c] = "pending"
  /\ fetchState' = [fetchState EXCEPT ![c] = "cancelled"]
  /\ lastEvent' = Event("fetch-cleanup", c, "", RawUndefined, NoHttpResponse)
  /\ UNCHANGED <<mandyState, mandyError, mandyStarting, roomKnown, controlInFlight,
                 startInFlight, opened, channelVars, normVars, relayVars, authorityVars,
                 transcriptVars>>

\* domainSlug or roomSlug changes on an open page: the cleanup of the
\* effect at :334-364 runs and the effect runs again, with a cancelled flag
\* of its own.  A fetch awaiting its response stays out, cancelled
\* ("restarted": that one and the new one are out).
RoomChanged(c) ==
  /\ c \in opened
  /\ roomKnown[c]
  /\ fetchState[c] \in {"pending", "done"}
  /\ fetchState' = [fetchState EXCEPT ![c] = IF @ = "pending" THEN "restarted" ELSE "pending"]
  /\ lastEvent' = Event("room-changed", c, "", RawUndefined, NoHttpResponse)
  /\ UNCHANGED <<mandyState, mandyError, mandyStarting, roomKnown, controlInFlight,
                 startInFlight, opened, channelVars, normVars, relayVars, authorityVars,
                 transcriptVars>>

\* a fetch that never looks at its cancelled flag
FetchIgnored_Never(cancelled) == FALSE

\* if (!cancelled && ...), :352 and :356
FetchIgnored(cancelled) == cancelled

\* fetchInitialState after its awaits, :346-357, for the fetch of the
\* current effect or for one whose effect was cleaned up (cancelled).
FetchResponse(c) ==
  /\ c \in opened
  /\ \E cancelled \in BOOLEAN :
       /\ fetchState[c] \in (IF cancelled THEN {"cancelled", "restarted"}
                                          ELSE {"pending", "restarted"})
       /\ \E r \in HttpResponses :
            /\ lastEvent' = Event("fetch-response", c,
                                  IF cancelled THEN "cancelled" ELSE "current", RawUndefined, r)
            /\ IF r.k = "throws" \/ (r.k = "badjson" /\ r.ok)
                 THEN /\ mandyError' = [mandyError EXCEPT
                                          ![c] = IF FetchIgnored(cancelled) THEN @
                                                 ELSE OrElse(r.error, Str("Unable to load Mandy's state."))]
                      /\ UNCHANGED mandyState
               ELSE IF ~r.ok
                 THEN UNCHANGED <<mandyState, mandyError, transcriptVars>>
               ELSE /\ mandyState' = [mandyState EXCEPT
                                        ![c] = IF ~FetchIgnored(cancelled) /\ r.state.k = "object"
                                                 THEN normalizeMandyState(r.state) ELSE @]
                    /\ UNCHANGED mandyError
       /\ fetchState' = [fetchState EXCEPT
                           ![c] = IF @ = "restarted"
                                    THEN (IF cancelled THEN "pending" ELSE "cancelled")
                                    ELSE "done"]
  /\ UNCHANGED <<mandyStarting, roomKnown, controlInFlight, startInFlight, opened,
                 channelVars, normVars, relayVars, authorityVars, transcriptVars>>

\* One client has the Room page open.  Pages share no state with each
\* other, so what holds of this page holds of every client's.
PageInit == opened = {"c1"} /\ PageDefaults

Init == PageInit /\ ChannelInit /\ AuthorityIdle /\ TranscriptIdle /\ NormIdle /\ RelayIdle

Next ==
  \E c \in Clients :
    \/ StateMessage(c)
    \/ ErrorMessage(c)
    \/ SendMandyControl(c)
    \/ ControlResponse(c)
    \/ RequestMandyStart(c)
    \/ StartResponse(c)
    \/ ClearMandyError(c)
    \/ RouterReady(c)
    \/ FetchCleanup(c)
    \/ RoomChanged(c)
    \/ FetchResponse(c)

Spec == Init /\ [][Next]_vars

\* The page without its control commands (sendMandyControl neither reads
\* nor writes mandyStarting) ...
SettlingNext ==
  \E c \in Clients :
    \/ StateMessage(c)
    \/ ErrorMessage(c)
    \/ RequestMandyStart(c)
    \/ StartResponse(c)
    \/ ClearMandyError(c)
    \/ RouterReady(c)
    \/ FetchCleanup(c)
    \/ RoomChanged(c)
    \/ FetchResponse(c)

\* ... when every start request it sent settles: fetch resolves or rejects,
\* and the continuation of requestMandyStart then runs.
SpecSettling ==
  Init /\ [][SettlingNext]_vars /\ \A c \in Clients : WF_vars(StartResponse(c))

(***************************************************************************)
(* The broadcast channel alone: the authority publishes mandy/state        *)
(* envelopes, and the video session hands each client any published        *)
(* envelope, in any order and any number of times.                         *)
(***************************************************************************)
\* The version a candidate bears, as the page reads it.
VersionOf(st) == normalizeMandyState(st).version.n

BroadcastInit ==
  /\ opened = Clients /\ PageDefaults
  /\ ChannelInit /\ AuthorityIdle /\ TranscriptIdle /\ NormIdle /\ RelayIdle

\* The authority sends a { type: "mandy/state", state } envelope to the room.
Publish ==
  /\ Cardinality(published) < MaxPublished
  /\ \E st \in StateCandidates \ published : published' = published \cup {st}
  /\ UNCHANGED <<seen, best, clientVars, normVars, relayVars, authorityVars, transcriptVars>>

\* A client's app-message handler receives a published envelope.
Deliver(c) ==
  /\ c \in opened
  /\ \E st \in published :
       /\ mandyState' = AfterStateMessage(c, st)
       /\ seen' = [seen EXCEPT ![c] = @ \cup {st}]
       /\ best' = [best EXCEPT
                     ![c] = IF @.k # "object" \/ VersionOf(st) >= VersionOf(@) THEN st ELSE @]
  /\ UNCHANGED <<published, mandyError, mandyStarting, roomKnown, controlInFlight,
                 startInFlight, fetchState, opened, lastEvent, normVars, relayVars, authorityVars,
                 transcriptVars>>

BroadcastNext == Publish \/ \E c \in Clients : Deliver(c)

SpecBroadcast == BroadcastInit /\ [][BroadcastNext]_vars

(***************************************************************************)
(* Claims about version reconciliation.                                    *)
(***************************************************************************)
\* C1: at every client the version of MandyState never decreases, whichever
\* source delivers a candidate: a mandy/state broadcast or the response to
\* a control command, to a start request or to the initial state fetch.
C1_NoRegression ==
  [][\A c \in Clients : mandyState'[c].version.n >= mandyState[c].version.n]_vars

Max(S) == CHOOSE x \in S : \A y \in S : y <= x

\* C2: after any broadcasts delivered to a client that started from the
\* default state, its version is the greatest version among the candidates
\* delivered and its state is the normalized candidate of that version that
\* was delivered last.
C2_MonotonicAdoption ==
  \A c \in opened :
    seen[c] # {} =>
      /\ mandyState[c].version.n = Max({VersionOf(st) : st \in seen[c]})
      /\ mandyState[c] = normalizeMandyState(best[c])

\* C3: a mandy/state envelope carrying a state replaces MandyState by the
\* normalized candidate exactly when the candidate's version is >= the
\* current version; otherwise every field, pendingReason included, stays.
C3_AdoptionRule ==
  [][\A c \in Clients :
       (lastEvent'.kind = "state-message" /\ lastEvent'.client = c
          /\ lastEvent'.state.k = "object") =>
         LET candidate == normalizeMandyState(lastEvent'.state) IN
           /\ candidate.version.n >= mandyState[c].version.n => mandyState'[c] = candidate
           /\ candidate.version.n < mandyState[c].version.n => mandyState'[c] = mandyState[c]]_vars

\* C3 witness: a client that adopted version 2 with mode active and has a
\* command pending received a version 1 envelope and still shows mode active.
C3_Witness ==
  /\ lastEvent.kind = "state-message"
  /\ lastEvent.state = Candidate(Num(1), "silent")
  /\ mandyState[lastEvent.client].version = Num(2)
  /\ mandyState[lastEvent.client].mode = Str("active")
  /\ mandyState[lastEvent.client].pendingReason = Str("mandy:set_mode")

\* No two candidates of the set bear the same version.
PairwiseDistinctVersions(S) ==
  \A a, b \in S : a # b => VersionOf(a) # VersionOf(b)

\* C7: two clients that received the same set of mandy/state candidates of
\* pairwise distinct versions, in whatever order and however often, hold
\* identical states.
C7_OrderInsensitive ==
  \A c, d \in opened :
    (seen[c] = seen[d] /\ PairwiseDistinctVersions(seen[c])) => mandyState[c] = mandyState[d]

\* C7 witness: both clients received the same two candidates of different
\* versions, the newer of which was adopted.
C7_Witness ==
  /\ seen["c1"] = seen["c2"]
  /\ Cardinality(seen["c1"]) = 2
  /\ PairwiseDistinctVersions(seen["c1"])
  /\ mandyState["c1"].version.n = MaxVersion
  /\ mandyState["c2"] = mandyState["c1"]

(***************************************************************************)
(* Claims about the page's handling of errors and of its own commands      *)
(* (Spec).                                                                 *)
(***************************************************************************)
\* The control request failed: fetch or response.json() threw, or the
\* response was not ok.
ControlFailed(r) == r.k \in {"throws", "badjson"} \/ ~r.ok

\* C12: when a control command fails (non-success response, or a thrown
\* network or parse error) the page changes no MandyState field except that
\* pendingReason becomes null, and it sets the error message; a mandy/error
\* envelope sets the error message and leaves MandyState as it was; neither
\* issues a request.
C12_ErrorsNeverBecomeState ==
  [][\A c \in Clients :
       /\ (lastEvent'.client = c /\ lastEvent'.kind = "control-response"
              /\ ControlFailed(lastEvent'.response)) =>
            /\ mandyState'[c] = [mandyState[c] EXCEPT !.pendingReason = Null]
            /\ mandyError'[c].t = "string" /\ mandyError'[c].s # ""
            /\ controlInFlight'[c] = controlInFlight[c] - 1
            /\ startInFlight' = startInFlight /\ fetchState' = fetchState
       /\ (lastEvent'.client = c /\ lastEvent'.kind = "error-message") =>
            /\ mandyState' = mandyState
            /\ mandyError'[c].t = "string" /\ mandyError'[c].s # ""
            /\ controlInFlight' = controlInFlight
            /\ startInFlight' = startInFlight /\ fetchState' = fetchState
    ]_vars

\* C12 witness: a page that had adopted the newest version has handled a
\* rejected control command; it shows the relay's message, keeps the state,
\* and no request is outstanding.
C12_Witness ==
  /\ lastEvent.kind = "control-response" /\ lastEvent.client = "c1"
  /\ ControlFailed(lastEvent.response)
  /\ mandyError["c1"] = Str("Mode is locked by alice")
  /\ mandyState["c1"].version = Num(MaxVersion)
  /\ mandyState["c1"].mode = Str("active")
  /\ mandyState["c1"].pendingReason = Null
  /\ controlInFlight["c1"] = 0

(***************************************************************************)
(* The panel's controls and the authority they address (SpecAuthority).    *)
(***************************************************************************)
\* localUserName of each client, and the client that owns the room.
UserName == [c \in Clients |-> IF c = "c1" THEN Str("alice") ELSE Str("bob")]
IsOwner(c) == c = "c1"

\* const isConnected = state.status === "online" || state.status === "degraded"
IsConnected(state) == state.status.s \in {"online", "degraded"}

\* What a participant may have typed into the directive box, and
\* String.prototype.trim on it.
Drafts == {"", "  ", "take notes", " take notes "}
Trim(text) ==
  CASE text = "  " -> ""
    [] text = " take notes " -> "take notes"
    [] OTHER -> text

\* handleDirectiveSave: whether it sends, and what.
DirectiveSaveSends(state, draft) == Trim(draft) # "" /\ Str(Trim(draft)) # state.directive
DirectiveSavePayload(state, name, draft) ==
  Command("mandy:update_directive", Undef, Str(Trim(draft)), name, state.version)

\* The options of the mode select a participant picks.
PanelModes == {"silent", "active"}

\* The mode select is enabled, and handleModeChange does not return early.
ModeSelectEnabled(state) == IsConnected(state) /\ ~Truthy(state.lockedBy)
ModeChangeSends(state, mode) == Str(mode) # state.mode

\* a handler that names the state's last editor as the requester
ModeChangePayload_AsLastEditor(state, name, mode) ==
  Command("mandy:set_mode", Str(mode), Undef, Coalesce(state.updatedBy, name), state.version)

\* handleModeChange: the command it passes to onSendControl.
ModeChangePayload(state, name, mode) ==
  Command("mandy:set_mode", Str(mode), Undef, name, state.version)

\* a handler that sends the action naming the current value
ToggleMuteAction_Inverted(state) == IF Truthy(state.muted) THEN "mandy:mute" ELSE "mandy:unmute"

\* handleToggleMute: action: state.muted ? "mandy:unmute" : "mandy:mute"
ToggleMuteAction(state) == IF Truthy(state.muted) THEN "mandy:unmute" ELSE "mandy:mute"
ToggleMutePayload(state, name) ==
  Command(ToggleMuteAction(state), Undef, Undef, name, state.version)

\* handleLockToggle
LockToggleAction(state) == IF Truthy(state.lockedBy) THEN "mandy:unlock_mode" ELSE "mandy:lock_mode"
LockTogglePayload(state, name) ==
  Command(LockToggleAction(state), Undef, Undef, name, state.version)

\* The commands client c's panel can pass to onSendControl in its present
\* state: each enabled control, with each value it offers.
PanelCommands(c) ==
  LET state == mandyState[c]
      name == UserName[c] IN
    {DirectiveSavePayload(state, name, d) :
       d \in {d \in Drafts : (IsConnected(state) \/ state.directive.s # "")
                             /\ DirectiveSaveSends(state, d)}} \cup
    {ModeChangePayload(state, name, m) :
       m \in {m \in PanelModes : ModeSelectEnabled(state) /\ ModeChangeSends(state, m)}} \cup
    (IF IsConnected(state) THEN {ToggleMutePayload(state, name)} ELSE {}) \cup
    (IF IsOwner(c) /\ IsConnected(state) THEN {LockTogglePayload(state, name)} ELSE {})

\* body: JSON.stringify({ domain, room, ...payload,
\*   requestedBy: payload.requestedBy ?? localUserName }), [room].tsx:236-242
PostedBody(payload, name) == [payload EXCEPT !.requestedBy = Coalesce(@, name)]

\* A panel control calls onSendControl: sendMandyControl up to its await,
\* on a page that knows its room.
PanelControl(c) ==
  /\ c \in opened /\ roomKnown[c]
  /\ wire[c].phase = "none"
  /\ posted < MaxPosted
  /\ posted' = posted + 1
  /\ \E payload \in PanelCommands(c) :
       /\ mandyState' = [mandyState EXCEPT ![c] = Optimistic(@, payload.action)]
       /\ wire' = [wire EXCEPT ![c] = OnWire("sent", PostedBody(payload, UserName[c]),
                                              FALSE, Undef, DEFAULT_MANDY_STATE)]
  /\ controlInFlight' = [controlInFlight EXCEPT ![c] = @ + 1]
  /\ UNCHANGED <<authority, mandyError, mandyStarting, roomKnown, startInFlight,
                 fetchState, opened, lastEvent, channelVars, normVars, relayVars, transcriptVars>>

\* The state as the backend serializes it: pendingReason is not part of it.
AsRaw(state) == Obj([state EXCEPT !.pendingReason = Undef])

\* sendMandyControl after its await, for the answer the backend gave.
ControlReply(c) ==
  /\ c \in opened
  /\ wire[c].phase \in {"replied", "redelivered"}
  /\ IF wire[c].ok
       THEN /\ mandyState' = [mandyState EXCEPT ![c] = normalizeMandyState(AsRaw(wire[c].state))]
            /\ mandyError' = [mandyError EXCEPT ![c] = Null]
       ELSE /\ mandyState' = [mandyState EXCEPT ![c] = ClearPendingOnFailure(@)]
            /\ mandyError' = [mandyError EXCEPT
                                ![c] = OrElse(wire[c].message, Str("Failed to update Mandy's state."))]
  /\ wire' = [wire EXCEPT ![c] = NothingOnWire]
  /\ controlInFlight' = [controlInFlight EXCEPT ![c] = @ - 1]
  /\ UNCHANGED <<authority, posted, mandyStarting, roomKnown, startInFlight,
                 fetchState, opened, lastEvent, channelVars, normVars, relayVars, transcriptVars>>

\* The mandy/state envelope with the authority's present state reaches c.
Sync(c) ==
  /\ c \in opened
  /\ mandyState' = AfterStateMessage(c, AsRaw(authority))
  /\ UNCHANGED <<authorityVars, mandyError, mandyStarting, roomKnown, controlInFlight,
                 startInFlight, fetchState, opened, lastEvent, channelVars, normVars,
                 relayVars, transcriptVars>>

\* What the authority answers: the command is accepted with the resulting
\* state, or refused with a message and the state as it was.
Accepted(state) == [ok |-> TRUE, message |-> Undef, state |-> state]
Refused(state, message) == [ok |-> FALSE, message |-> Str(message), state |-> state]

\* An accepted command that changes the state: the version grows by one and
\* the requester is recorded.
Stamp(state, cmd) ==
  [state EXCEPT !.version = Num(@.n + 1), !.updatedBy = cmd.requestedBy]

\* The state is locked against the requester of cmd.
LockedAgainst(state, cmd) == Truthy(state.lockedBy) /\ state.lockedBy # cmd.requestedBy

\* mandy:set_mode
ApplySetMode(state, cmd) ==
  IF LockedAgainst(state, cmd) THEN Refused(state, "Mode is locked")
  ELSE IF state.mode = cmd.mode THEN Accepted(state)
  ELSE Accepted(Stamp([state EXCEPT !.mode = cmd.mode], cmd))

\* mandy:mute and mandy:unmute
ApplyMute(state, cmd) ==
  LET value == Bool(cmd.action = "mandy:mute") IN
    IF state.muted = value THEN Accepted(state)
    ELSE Accepted(Stamp([state EXCEPT !.muted = value], cmd))

\* an authority that stamps every directive it is sent
ApplyDirective_AlwaysStamps(state, cmd) ==
  Accepted(Stamp([state EXCEPT !.directive = cmd.directive], cmd))

\* mandy:update_directive
ApplyDirective(state, cmd) ==
  IF state.directive = cmd.directive THEN Accepted(state)
  ELSE Accepted(Stamp([state EXCEPT !.directive = cmd.directive], cmd))

\* mandy:lock_mode and mandy:unlock_mode
ApplyLock(state, cmd) ==
  IF LockedAgainst(state, cmd) THEN Refused(state, "Mode is locked")
  ELSE IF cmd.action = "mandy:lock_mode"
    THEN IF state.lockedBy = cmd.requestedBy THEN Accepted(state)
         ELSE Accepted(Stamp([state EXCEPT !.lockedBy = cmd.requestedBy], cmd))
  ELSE IF state.lockedBy = Null THEN Accepted(state)
       ELSE Accepted(Stamp([state EXCEPT !.lockedBy = Null], cmd))

Apply(state, cmd) ==
  CASE cmd.action = "mandy:set_mode" -> ApplySetMode(state, cmd)
    [] cmd.action \in {"mandy:mute", "mandy:unmute"} -> ApplyMute(state, cmd)
    [] cmd.action = "mandy:update_directive" -> ApplyDirective(state, cmd)
    [] cmd.action \in {"mandy:lock_mode", "mandy:unlock_mode"} -> ApplyLock(state, cmd)

\* The answers the authority may give: the command's effect, or, when the
\* command states a version that is not the current one, a refusal.
Outcomes(state, cmd) ==
  {Apply(state, cmd)} \cup
  (IF cmd.version # state.version THEN {Refused(state, "Version conflict")} ELSE {})

\* Client c's mandy:start reaches the authority of a room whose agent is
\* not connected.
AuthorityStart(c) ==
  /\ authority.status = Str("disconnected")
  /\ authority' = [authority EXCEPT !.status = Str("online"), !.version = Num(@.n + 1),
                                     !.updatedBy = UserName[c]]
  /\ UNCHANGED <<wire, posted, clientVars, channelVars, normVars, relayVars, transcriptVars>>

\* The authority handles the command client c posted and answers it.
AuthorityControl(c) ==
  /\ wire[c].phase = "sent"
  /\ \E outcome \in Outcomes(authority, wire[c].cmd) :
       /\ authority' = outcome.state
       /\ wire' = [wire EXCEPT ![c] = OnWire("replied", @.cmd, outcome.ok,
                                              outcome.message, outcome.state)]
  /\ UNCHANGED <<posted, clientVars, channelVars, normVars, relayVars, transcriptVars>>

\* A command already answered reaches the authority a second time; the
\* client is given the first answer.
AuthorityRedeliver(c) ==
  /\ wire[c].phase = "replied"
  /\ \E outcome \in Outcomes(authority, wire[c].cmd) :
       authority' = outcome.state
  /\ wire' = [wire EXCEPT ![c].phase = "redelivered"]
  /\ UNCHANGED <<posted, clientVars, channelVars, normVars, relayVars, transcriptVars>>

\* Both pages are open and know their room; the authority has just been
\* created for it.
AuthorityInit ==
  /\ opened = Clients
  /\ lastEvent = Event("none", "c1", "", RawUndefined, NoHttpResponse)
  /\ mandyState = [c \in Clients |-> DEFAULT_MANDY_STATE]
  /\ mandyError = [c \in Clients |-> Null]
  /\ mandyStarting = [c \in Clients |-> FALSE]
  /\ roomKnown = [c \in Clients |-> TRUE]
  /\ controlInFlight = [c \in Clients |-> 0]
  /\ startInFlight = [c \in Clients |-> 0]
  /\ fetchState = [c \in Clients |-> "done"]
  /\ ChannelInit /\ AuthorityIdle /\ TranscriptIdle /\ NormIdle /\ RelayIdle

AuthorityNext ==
  \E c \in Clients :
       \/ AuthorityStart(c)
       \/ PanelControl(c)
       \/ AuthorityControl(c)
       \/ AuthorityRedeliver(c)
       \/ ControlReply(c)
       \/ Sync(c)

SpecAuthority == AuthorityInit /\ [][AuthorityNext]_vars

\* Client c's command is a mandy:set_mode, and the authority's lock is held
\* by someone other than c's user, or other than the requester it names.
LockedOut(c) ==
  /\ wire[c].cmd.action = "mandy:set_mode"
  /\ Truthy(authority.lockedBy)
  /\ authority.lockedBy # UserName[c] \/ authority.lockedBy # wire[c].cmd.requestedBy

\* C13: whenever the authoritative state names in lockedBy someone other
\* than the requester of a mandy:set_mode command, the authority refuses the
\* command when it arrives (also when it arrives again) and its state, mode
\* and version included, stays as it was.
C13_LockExclusivity ==
  [][\A c \in Clients :
       ((AuthorityControl(c) \/ AuthorityRedeliver(c)) /\ LockedOut(c)) =>
         /\ authority' = authority
         /\ AuthorityControl(c) => ~wire'[c].ok
    ]_vars

\* C13 witness: bob changed the mode on a page that did not yet show
\* alice's lock; the authority, locked by alice, refused and kept its mode.
C13_Witness ==
  /\ wire["c2"].phase = "redelivered"
  /\ wire["c2"].cmd.action = "mandy:set_mode"
  /\ wire["c2"].cmd.mode = Str("active")
  /\ wire["c2"].cmd.requestedBy = Str("bob")
  /\ ~wire["c2"].ok /\ wire["c2"].message = Str("Mode is locked")
  /\ authority.lockedBy = Str("alice")
  /\ authority.mode = Str("silent")

\* C14: a mandy:update_directive whose directive is identical to the
\* authority's current directive does not increment version and changes no
\* other field of the authoritative state, on first and on repeated arrival.
C14_DirectiveNoOp ==
  [][\A c \in Clients :
       ((AuthorityControl(c) \/ AuthorityRedeliver(c))
          /\ wire[c].cmd.action = "mandy:update_directive"
          /\ wire[c].cmd.directive = authority.directive) =>
         authority' = authority
    ]_vars

\* C14 witness: alice set the directive (version 2); bob, whose page still
\* showed none, submitted the same text, and the authority answered with the
\* state alice had produced.
C14_Witness ==
  /\ wire["c2"].phase \in {"replied", "redelivered"}
  /\ wire["c2"].cmd.action = "mandy:update_directive"
  /\ wire["c2"].cmd.directive = Str("take notes")
  /\ wire["c2"].ok /\ wire["c2"].state.version = Num(2)
  /\ wire["c2"].state.updatedBy = Str("alice")
  /\ authority.directive = Str("take notes")
  /\ authority.version = Num(2) /\ authority.updatedBy = Str("alice")

MuteActions == {"mandy:mute", "mandy:unmute"}

\* The value a mute control asks for.
Commanded(cmd) == Bool(cmd.action = "mandy:mute")

\* C15: the mute control a panel issues is mandy:unmute exactly when its
\* local state has muted = true and mandy:mute exactly when it has
\* muted = false; the authority, handling such a command for the first or a
\* repeated time, never moves muted away from the value the command names,
\* and sets it to that value when it accepts the command.
C15_MuteIsAssignment ==
  [][\A c \in Clients :
       /\ (PanelControl(c) /\ wire'[c].cmd.action \in MuteActions) =>
            /\ wire'[c].cmd.action = "mandy:unmute" <=> mandyState[c].muted = Bool(TRUE)
            /\ wire'[c].cmd.action = "mandy:mute" <=> mandyState[c].muted = Bool(FALSE)
       /\ ((AuthorityControl(c) \/ AuthorityRedeliver(c))
             /\ wire[c].cmd.action \in MuteActions) =>
            /\ authority.muted = Commanded(wire[c].cmd) => authority'.muted = authority.muted
            /\ (AuthorityControl(c) /\ wire'[c].ok) => authority'.muted = Commanded(wire[c].cmd)
    ]_vars

\* C15 witness: both pages showed version 1, muted, and both pressed the
\* mute control; both mandy:unmute commands have arrived, alice's twice, and
\* the authority is unmuted after a single change.
C15_Witness ==
  /\ wire["c1"].phase = "redelivered" /\ wire["c2"].phase \in {"replied", "redelivered"}
  /\ wire["c1"].cmd.action = "mandy:unmute" /\ wire["c2"].cmd.action = "mandy:unmute"
  /\ wire["c1"].cmd.version = Num(1) /\ wire["c2"].cmd.version = Num(1)
  /\ authority.muted = Bool(FALSE)
  /\ authority.version = Num(2)

\* C16: while a start request of a client is in flight, an invocation of
\* requestMandyStart issues no request, so a client never has more than one
\* start request in flight.
C16_SingleStartInFlight ==
  [][\A c \in Clients :
       /\ startInFlight'[c] <= 1
       /\ (startInFlight[c] > 0 /\ lastEvent'.client = c
             /\ lastEvent'.kind \in {"start-sent", "start-ignored", "start-refused"}) =>
            /\ lastEvent'.kind = "start-ignored"
            /\ startInFlight'[c] = startInFlight[c]
            /\ mandyStarting'[c] /\ mandyState' = mandyState /\ mandyError' = mandyError
    ]_vars

\* C16 witness: Invite Mandy was pressed again while the first request was
\* still out; one request is in flight.
C16_Witness ==
  /\ lastEvent.kind = "start-ignored" /\ lastEvent.client = "c1"
  /\ startInFlight["c1"] = 1
  /\ mandyStarting["c1"]

\* A MandyState without its local marker.
Authoritative(state) == [state EXCEPT !.pendingReason = Null]

\* C17: issuing a control command changes, before the response arrives, only
\* pendingReason of the page's MandyState (to the command's action): version,
\* mode, muted, directive, lockedBy, updatedBy, updatedAt and status stay;
\* and what the version comparison adopts from any mandy/state envelope is
\* the same with the marker as without it.
C17_OptimisticNotAuthoritative ==
  [][\A c \in Clients :
       (lastEvent'.client = c /\ lastEvent'.kind = "control-sent") =>
         /\ mandyState'[c] = [mandyState[c] EXCEPT !.pendingReason = Str(lastEvent'.action)]
         /\ \A st \in StateCandidates :
              Authoritative(Reconcile(mandyState'[c], st)) =
                Authoritative(Reconcile(mandyState[c], st))
    ]_vars

\* C17 witness: a page showing version MaxVersion, mode active, has just
\* issued mandy:set_mode and shows it as pending, the rest as before.
C17_Witness ==
  /\ lastEvent.kind = "control-sent" /\ lastEvent.client = "c1"
  /\ mandyState["c1"].pendingReason = Str("mandy:set_mode")
  /\ mandyState["c1"].version = Num(MaxVersion)
  /\ mandyState["c1"].mode = Str("active")
  /\ controlInFlight["c1"] = 1

\* C18: a page whose pendingReason is not null has at least one control
\* command awaiting its response, whatever commands, envelopes and fetches
\* interleave; and when the completion of a control command has just been
\* handled (with a state, without one, or as a failure) pendingReason is null.
C18_PendingMarksInFlight ==
  \A c \in Clients :
    /\ mandyState[c].pendingReason # Null => controlInFlight[c] > 0
    /\ (lastEvent.kind = "control-response" /\ lastEvent.client = c) =>
         mandyState[c].pendingReason = Null

\* C18 witness: of two commands in flight one has completed successfully
\* without a state; pendingReason is null while the other is still out.
C18_Witness ==
  /\ lastEvent.kind = "control-response" /\ lastEvent.client = "c1"
  /\ lastEvent.response.k = "json" /\ lastEvent.response.ok
  /\ lastEvent.response.state = RawUndefined
  /\ controlInFlight["c1"] = 1
  /\ mandyState["c1"].pendingReason = Null

\* C19: whenever requestMandyStart has set mandyStarting to true, the flag
\* becomes false again once the attempt ends, whether the response is a
\* success, a non-success or a thrown error; with no room known the flag is
\* never left true.  No start attempt leaves the page unable to invite.
C19_StartingReleased ==
  \A c \in Clients : mandyStarting[c] ~> (~mandyStarting[c] /\ startInFlight[c] = 0)

\* C19 witness: a start request failed with a network error; the page shows
\* the error and the Invite button is enabled again.
C19_Witness ==
  /\ lastEvent.kind = "start-response" /\ lastEvent.client = "c1"
  /\ lastEvent.response.k = "throws"
  /\ mandyError["c1"] = Str("Failed to fetch")
  /\ ~mandyStarting["c1"] /\ startInFlight["c1"] = 0

\* C20: a response or a failure of an initial-state fetch whose effect has
\* been cleaned up changes neither the page's MandyState nor its error
\* message; nor does a non-success response to any initial-state fetch.
C20_CancelledFetchInert ==
  [][\A c \in Clients :
       (lastEvent'.client = c /\ lastEvent'.kind = "fetch-response"
          /\ \/ lastEvent'.action = "cancelled"
             \/ lastEvent'.response.k \in {"json", "badjson"} /\ ~lastEvent'.response.ok) =>
         /\ mandyState'[c] = mandyState[c]
         /\ mandyError'[c] = mandyError[c]
    ]_vars

\* C20 witness: the room changed while the first fetch was out; its
\* response, a state of version MaxVersion, arrived afterwards and the page
\* still shows the default state and no error, the new fetch pending.
C20_Witness ==
  /\ lastEvent.kind = "fetch-response" /\ lastEvent.client = "c1"
  /\ lastEvent.action = "cancelled"
  /\ lastEvent.response.ok /\ lastEvent.response.state = Candidate(Num(MaxVersion), "active")
  /\ fetchState["c1"] = "pending"
  /\ mandyState["c1"] = DEFAULT_MANDY_STATE
  /\ mandyError["c1"] = Null

(***************************************************************************)
(* Transcription on the Room page: the listeners startCall registers on    *)
(* the call frame, [room].tsx:158-209.                                     *)
(***************************************************************************)
\* Session ids a transcript can name as its speaker: the local participant,
\* a remote participant in the call, and one who has left the call.
LocalSession == "s-local"
RemoteSessions == {"s-remote"}
SpeakerSessions == {LocalSession, "s-remote", "s-left"}

\* user_name of the local participant; Daily leaves it empty for a guest.
LocalUserNames == {Str(""), Str("alice")}

\* An app-message event as its listener receives it: msg may be undefined
\* (k = "undefined") and so may msg.data.  Envelopes of data.type
\* "mandy/state" and "mandy/error" return at :181 and :186, before the
\* transcript test (StateMessage, ErrorMessage); these are the events that
\* pass both tests.
AppMessage(fromId, hasData, is_final, session_id, text, timestamp) ==
  [k |-> "object", fromId |-> fromId, hasData |-> hasData, is_final |-> is_final,
   session_id |-> session_id, text |-> text, timestamp |-> timestamp]
UndefinedMessage ==
  [k |-> "undefined", fromId |-> "", hasData |-> FALSE, is_final |-> Undef,
   session_id |-> "", text |-> Undef, timestamp |-> Undef]
AppMessages ==
  {UndefinedMessage} \cup
  {AppMessage(f, FALSE, Undef, "", Undef, Undef) : f \in {"transcription", "p-remote"}} \cup
  {AppMessage("p-remote", TRUE, Bool(TRUE), LocalSession, Str("hello"), Str("12:00"))} \cup
  {AppMessage("transcription", TRUE, i, sid, tx, ts) :
     i \in {Bool(TRUE), Bool(FALSE), Undef}, sid \in SpeakerSessions,
     tx \in {Str(""), Str("hello"), Undef}, ts \in {Str(""), Str("12:00")}}

\* msg?.fromId === "transcription" && data?.is_final, :189
IsFinalTranscript(msg) ==
  msg.k = "object" /\ msg.fromId = "transcription" /\ msg.hasData /\ Truthy(msg.is_final)

\* newCallFrame.participants()[session_id]: undefined unless the participant
\* is in the call.
RemoteParticipant(session_id) ==
  IF session_id \in RemoteSessions
    THEN [k |-> "object", user_name |-> Str("bob")]
    ELSE [k |-> "undefined", user_name |-> Undef]

\* The speaker's name, :190-194.  Reading user_name of undefined throws a
\* TypeError.
SpeakerName(localName, session_id) ==
  IF session_id = LocalSession
    THEN [threw |-> FALSE, name |-> localName]
    ELSE [threw |-> RemoteParticipant(session_id).k = "undefined",
          name |-> RemoteParticipant(session_id).user_name]

\* v.length is truthy; reading length of undefined or null throws.
HasLength(v) == v.t = "string" /\ v.s # ""
LengthThrows(v) == v.t \in {"undefined", "null"}

\* name.length && text.length && timestamp.length, :198, left to right
AllPresent(name, text, timestamp) ==
  HasLength(name) /\ HasLength(text) /\ HasLength(timestamp)
PresenceThrows(name, text, timestamp) ==
  \/ LengthThrows(name)
  \/ HasLength(name) /\ LengthThrows(text)
  \/ HasLength(name) /\ HasLength(text) /\ LengthThrows(timestamp)

\* What the app-message listener leaves behind for msg, :189-207: the
\* statements before a throw have run, those after it have not.
AfterAppMessage(prevLive, prevMsg, localName, msg) ==
  LET who == SpeakerName(localName, msg.session_id)
      unchanged == [isTranscribing |-> prevLive, newMsg |-> prevMsg]
  IN IF ~IsFinalTranscript(msg) THEN unchanged
     ELSE IF who.threw THEN unchanged
     ELSE IF PresenceThrows(who.name, msg.text, msg.timestamp) THEN unchanged
     ELSE [isTranscribing |-> TRUE,
           newMsg |-> IF AllPresent(who.name, msg.text, msg.timestamp)
                        THEN TranscriptMsg(who.name.s, msg.text.s, msg.timestamp.s)
                        ELSE prevMsg]

\* The listeners exist once startCall has run, which needs the call URL.
Listening == "c1" \in opened /\ roomKnown["c1"] /\ Len(frameLog) < MaxFrameEvents

\* newCallFrame.on("transcription-started"), :158-160
TranscriptionStarted ==
  /\ Listening
  /\ isTranscribing' = TRUE
  /\ frameLog' = Append(frameLog, "transcription-started")
  /\ UNCHANGED <<newMsg, clientVars, channelVars, normVars, relayVars, authorityVars>>

\* newCallFrame.on("transcription-stopped"), :162-164
TranscriptionStopped ==
  /\ Listening
  /\ isTranscribing' = FALSE
  /\ frameLog' = Append(frameLog, "transcription-stopped")
  /\ UNCHANGED <<newMsg, clientVars, channelVars, normVars, relayVars, authorityVars>>

\* newCallFrame.on("app-message") for an event that is no Mandy envelope
TranscriptMessage(msg) ==
  /\ Listening
  /\ \E localName \in LocalUserNames :
       LET after == AfterAppMessage(isTranscribing, newMsg, localName, msg) IN
         /\ isTranscribing' = after.isTranscribing
         /\ newMsg' = after.newMsg
  /\ frameLog' = Append(frameLog, IF IsFinalTranscript(msg) THEN "final-transcript"
                                                            ELSE "app-message")
  /\ UNCHANGED <<clientVars, channelVars, normVars, relayVars, authorityVars>>

\* The page is open on its room and startCall has registered the listeners.
TranscriptionInit ==
  /\ opened = {"c1"}
  /\ lastEvent = Event("none", "c1", "", RawUndefined, NoHttpResponse)
  /\ mandyState = [c \in Clients |-> DEFAULT_MANDY_STATE]
  /\ mandyError = [c \in Clients |-> Null]
  /\ mandyStarting = [c \in Clients |-> FALSE]
  /\ roomKnown = [c \in Clients |-> c = "c1"]
  /\ controlInFlight = [c \in Clients |-> 0]
  /\ startInFlight = [c \in Clients |-> 0]
  /\ fetchState = [c \in Clients |-> IF c = "c1" THEN "done" ELSE "idle"]
  /\ ChannelInit /\ AuthorityIdle /\ TranscriptIdle /\ NormIdle /\ RelayIdle

TranscriptionNext ==
  \/ TranscriptionStarted
  \/ TranscriptionStopped
  \/ \E msg \in AppMessages : TranscriptMessage(msg)
  \/ ErrorMessage("c1")

SpecTranscription == TranscriptionInit /\ [][TranscriptionNext]_vars

\* Some final transcript message from the transcription sender is handled.
FinalTranscriptHandled ==
  \E msg \in AppMessages : IsFinalTranscript(msg) /\ TranscriptMessage(msg)

\* C21: every final transcript app-message from the transcription sender
\* sets isTranscribing to true, whatever came before it (a
\* transcription-stopped event included), and isTranscribing goes from true
\* to false only in the transcription-stopped listener; so after a final
\* transcript message the indicator stays live until such an event.
C21_TranscriptLiveness ==
  [][/\ FinalTranscriptHandled => isTranscribing'
     /\ (isTranscribing /\ ~isTranscribing') => TranscriptionStopped]_vars

\* The part of C21 about the way back: only transcription-stopped ends it.
TranscribingEndsOnlyOnStopped ==
  [][(isTranscribing /\ ~isTranscribing') => TranscriptionStopped]_vars

\* A final transcript handled without a throw sets the indicator.
FinalTranscriptSetsLiveUnlessThrown ==
  [][\A msg \in AppMessages :
       (IsFinalTranscript(msg) /\ TranscriptMessage(msg)
          /\ msg.session_id # "s-left" /\ msg.text # Undef) => isTranscribing']_vars

\* A final transcript arrived after transcription-stopped and the
\* indicator is live again.
LiveAgainAfterStopped ==
  /\ Len(frameLog) >= 2
  /\ frameLog[Len(frameLog) - 1] = "transcription-stopped"
  /\ frameLog[Len(frameLog)] = "final-transcript"
  /\ isTranscribing

\* A final transcript was the last event and the indicator is not live.
FinalTranscriptLeftIdle ==
  /\ Len(frameLog) >= 1
  /\ frameLog[Len(frameLog)] = "final-transcript"
  /\ ~isTranscribing

====
